---- MODULE Spec2Model ----
(***************************************************************************)
(* sshuttle-selector: the session/selection engine of src/main.go.         *)
(*                                                                         *)
(* Strings are TLA+ strings, handled with Len, SubSeq and \o, so that the  *)
(* command builder and the process scanner work character by character as  *)
(* the Go code does (strings.Contains, strings.Split, strings.TrimSpace,   *)
(* strings.Fields, strconv.Atoi, fmt.Sprintf).                             *)
(*                                                                         *)
(* Indices are 0-based as in Go: entry i of the list is items[i + 1].      *)
(***************************************************************************)
EXTENDS Integers, Sequences, FiniteSets, TLC

VARIABLES
    debugMode,  \* global debug flag (main.go:89, set at main.go:643)
    cfgExists,  \* whether ~/.config/sshuttle-selector/config.yaml exists
    tunnels,    \* Config.Tunnels of the config file (sequence of TunnelConfig)
    procs,      \* the OS process table, in the order `ps aux` prints it
    items,      \* model.list.Items(): the catalog
    index,      \* model.list.Index(): the cursor, 0-based
    choice,     \* model.choice
    quitting,   \* model.quitting
    pc,         \* where the program is: "start", "nav", "ended", "exit"
    exitCode,   \* exit status of the program (-1 while it runs)
    activeTunnels, \* loadAllItems' local activeTunnels: the scan of the build
    calls,      \* history: external commands run so far (ps, kill, sh), in order
    lastKey,    \* history: the last key message handled by Update ("" if none)
    prevIndex,  \* history: the cursor before the last key message
    before,     \* history: the process table before the last key message
    psText,     \* the lines of the last `ps aux` listing given to the scanner
    printed,    \* what main has written to standard output, line by line
    lastAdd     \* history: flags and outcome of the last -add run (NoAdd if none)

vars == <<debugMode, cfgExists, tunnels, procs, items, index, choice, quitting,
          pc, exitCode, activeTunnels, calls, lastKey, prevIndex, before,
          psText, printed, lastAdd>>

NoAdd == [run |-> FALSE]

----------------------------------------------------------------------------
(* Bounds of the model. *)

MaxDefs == 2

MaxProcs == 2

----------------------------------------------------------------------------
(* Go's strings package, on TLA+ strings. *)

Min(S) == CHOOSE x \in S : \A y \in S : x <= y

Max(S) == CHOOSE x \in S : \A y \in S : x >= y

\* s[i-1 : i-1+len(sub)] == sub, for a 1-based position i
HasPrefixAt(s, i, sub) ==
    /\ i >= 1
    /\ i + Len(sub) - 1 <= Len(s)
    /\ SubSeq(s, i, i + Len(sub) - 1) = sub

\* strings.Contains
Contains(s, sub) == \E i \in 1..(Len(s) + 1) : HasPrefixAt(s, i, sub)

\* strings.HasPrefix
HasPrefix(s, prefix) == HasPrefixAt(s, 1, prefix)

\* 1-based position of the first occurrence of sub at or after from; 0 if none
IndexFrom(s, sub, from) ==
    LET at == {i \in from..(Len(s) + 1) : HasPrefixAt(s, i, sub)}
    IN  IF at = {} THEN 0 ELSE Min(at)

\* unicode.IsSpace on the characters that occur here
IsSpace(c) == c \in {" ", "\t", "\n"}

\* strings.TrimSpace
TrimSpace(s) ==
    LET keep == {i \in 1..Len(s) : ~IsSpace(SubSeq(s, i, i))}
    IN  IF keep = {} THEN "" ELSE SubSeq(s, Min(keep), Max(keep))

\* strings.Split(s, sep)[1], for a non-empty sep that occurs in s: the text
\* between the first occurrence of sep and the next one (or the end of s)
SplitSecond(s, sep) ==
    LET first == IndexFrom(s, sep, 1)
        start == first + Len(sep)
        next  == IndexFrom(s, sep, start)
    IN  IF next = 0 THEN SubSeq(s, start, Len(s))
        ELSE SubSeq(s, start, next - 1)

\* strings.Split(s, sep)[0]
SplitFirst(s, sep) ==
    LET first == IndexFrom(s, sep, 1)
    IN  IF first = 0 THEN s ELSE SubSeq(s, 1, first - 1)

----------------------------------------------------------------------------
(* Item types (main.go:92-98) and list entries (main.go:100-106). *)

ItemActiveTunnel == "ItemActiveTunnel"

ItemAvailableTunnel == "ItemAvailableTunnel"

ItemAction == "ItemAction"

item(name, destination, cmd, itemType, pid) ==
    [name |-> name, destination |-> destination, command |-> cmd,
     itemType |-> itemType, pid |-> pid]

TunnelConfig(name, host, user, subnets, extraArgs) ==
    [Name |-> name, Host |-> host, User |-> user, Subnets |-> subnets,
     ExtraArgs |-> extraArgs]

----------------------------------------------------------------------------
(* CommandBuilder: the body of the loop of loadConfigTunnels. *)

\* main.go:448-458: the remote-login command given to --ssh-cmd
sshCmd(tunnel, debug) ==
    LET base == "ssh -o StrictHostKeyChecking=no"
        keyed ==
            IF Contains(tunnel.ExtraArgs, "-i ")
            THEN base \o " -i " \o TrimSpace(SplitSecond(tunnel.ExtraArgs, "-i "))
            ELSE base
    IN  IF debug THEN keyed \o " -vvv" ELSE keyed

\* main.go:461-468 with the daemon flag left out in normal mode
commandNoDaemon(tunnel, debug) ==
    IF debug
    THEN "sshuttle -v -r " \o tunnel.User \o "@" \o tunnel.Host \o " "
            \o tunnel.Subnets \o " --ssh-cmd=\"" \o sshCmd(tunnel, debug) \o "\""
    ELSE "sshuttle -r " \o tunnel.User \o "@" \o tunnel.Host \o " "
            \o tunnel.Subnets \o " --ssh-cmd=\"" \o sshCmd(tunnel, debug) \o "\""

\* main.go:461-468: the tunnel command before the pass-through arguments
baseCommand(tunnel, debug) ==
    IF debug
    THEN "sshuttle -v -r " \o tunnel.User \o "@" \o tunnel.Host \o " "
            \o tunnel.Subnets \o " --ssh-cmd=\"" \o sshCmd(tunnel, debug) \o "\""
    ELSE "sshuttle -r " \o tunnel.User \o "@" \o tunnel.Host \o " "
            \o tunnel.Subnets \o " --daemon --ssh-cmd=\""
            \o sshCmd(tunnel, debug) \o "\""

\* The extra arguments appended without the separating space
passThroughNoSpace(tunnel) ==
    IF tunnel.ExtraArgs # "" /\ ~Contains(tunnel.ExtraArgs, "-i ")
    THEN tunnel.ExtraArgs
    ELSE ""

\* main.go:470-473: the pass-through extra arguments appended to the command
passThrough(tunnel) ==
    IF tunnel.ExtraArgs # "" /\ ~Contains(tunnel.ExtraArgs, "-i ")
    THEN " " \o tunnel.ExtraArgs
    ELSE ""

\* main.go:447-473: the resolved command of one definition
command(tunnel, debug) == baseCommand(tunnel, debug) \o passThrough(tunnel)

\* main.go:475-480
configItem(tunnel, debug) ==
    item(tunnel.Name, tunnel.User \o "@" \o tunnel.Host,
         command(tunnel, debug), ItemAvailableTunnel, 0)

\* main.go:425-432: the list used when the config file does not exist
defaultItems ==
    << item("Example Server", "user@example.com",
            "sshuttle -r user@example.com 10.0.0.0/8", ItemAvailableTunnel, 0) >>

\* main.go:414-484 (reading and parsing the file are the caller's inputs)
loadConfigTunnels(exists, ts, debug) ==
    IF ~exists THEN defaultItems
    ELSE [i \in 1..Len(ts) |-> configItem(ts[i], debug)]

----------------------------------------------------------------------------
(* ProcessScanner: getActiveTunnels (main.go:290-327). *)

\* strings.Fields: the maximal runs of non-space characters, in order
RECURSIVE FieldsFrom(_, _)
FieldsFrom(s, from) ==
    LET starts == {i \in from..Len(s) : ~IsSpace(SubSeq(s, i, i))}
    IN  IF starts = {} THEN <<>>
        ELSE LET b == Min(starts)
                 stops == {i \in b..Len(s) : IsSpace(SubSeq(s, i, i))}
                 e == IF stops = {} THEN Len(s) ELSE Min(stops) - 1
             IN  <<SubSeq(s, b, e)>> \o FieldsFrom(s, e + 1)

Fields(s) == FieldsFrom(s, 1)

Digits == <<"0", "1", "2", "3", "4", "5", "6", "7", "8", "9">>

IsDigit(c) == \E d \in 1..10 : Digits[d] = c

DigitVal(c) == (CHOOSE d \in 1..10 : Digits[d] = c) - 1

RECURSIVE DecVal(_)
DecVal(s) ==
    IF s = "" THEN 0
    ELSE 10 * DecVal(SubSeq(s, 1, Len(s) - 1)) + DigitVal(SubSeq(s, Len(s), Len(s)))

\* strconv.Atoi: an optional sign, then one or more decimal digits
\* (values here are far from the int range, so no range error arises)
Atoi(s) ==
    LET signed == s # "" /\ SubSeq(s, 1, 1) \in {"+", "-"}
        digits == IF signed THEN SubSeq(s, 2, Len(s)) ELSE s
        ok == digits # "" /\ \A i \in 1..Len(digits) : IsDigit(SubSeq(digits, i, i))
    IN  IF ~ok THEN [err |-> TRUE, val |-> 0]
        ELSE [err |-> FALSE,
              val |-> IF signed /\ SubSeq(s, 1, 1) = "-"
                      THEN 0 - DecVal(digits) ELSE DecVal(digits)]

\* main.go:299, 311-315: regexp `sshuttle.*-r\s+(\S+)` on one line. The match
\* starts at the first "sshuttle"; the greedy .* makes "-r" the last one that
\* is followed by white space and then a token; the token is the destination.
destinationOf(line) ==
    LET tool == IndexFrom(line, "sshuttle", 1)
        flags == {j \in (tool + 8)..Len(line) :
                    /\ tool > 0
                    /\ HasPrefixAt(line, j, "-r")
                    /\ j + 2 <= Len(line)
                    /\ IsSpace(SubSeq(line, j + 2, j + 2))
                    /\ \E k \in (j + 3)..Len(line) : ~IsSpace(SubSeq(line, k, k))}
    IN  IF flags = {} THEN "unknown"
        ELSE LET j == Max(flags)
                 b == Min({k \in (j + 3)..Len(line) : ~IsSpace(SubSeq(line, k, k))})
                 stops == {k \in b..Len(line) : IsSpace(SubSeq(line, k, k))}
                 e == IF stops = {} THEN Len(line) ELSE Min(stops) - 1
             IN  SubSeq(line, b, e)

activeTunnel(pid, cmd, destination) ==
    [PID |-> pid, Command |-> cmd, Destination |-> destination]

\* A scanner that takes every line naming the tool, with or without "-r"
scanLineAnyTool(line) ==
    IF Contains(line, "sshuttle")
    THEN LET fields == Fields(line)
         IN  IF Len(fields) > 1 /\ ~Atoi(fields[2]).err
             THEN <<activeTunnel(Atoi(fields[2]).val, line, destinationOf(line))>>
             ELSE <<>>
    ELSE <<>>

\* main.go:301-324: what one line of the listing adds to the result
scanLine(line) ==
    IF Contains(line, "sshuttle") /\ Contains(line, "-r")
    THEN LET fields == Fields(line)
         IN  IF Len(fields) > 1 /\ ~Atoi(fields[2]).err
             THEN <<activeTunnel(Atoi(fields[2]).val, line, destinationOf(line))>>
             ELSE <<>>
    ELSE <<>>

\* main.go:297-326: the result for the lines of a listing that could be read
RECURSIVE scanLines(_)
scanLines(lines) ==
    IF lines = <<>> THEN <<>>
    ELSE scanLine(Head(lines)) \o scanLines(Tail(lines))

\* One line of `ps aux` for a process (the columns between PID and COMMAND
\* hold no letters the scanner looks for and are left out).
psLine(p) == p.user \o " " \o ToString(p.pid) \o " " \o p.args

\* The output of `ps aux` for a process table
psOutput(table) == [i \in 1..Len(table) |-> psLine(table[i])]

\* main.go:290-327 on the lines `ps aux` wrote; psOk is whether it could be run
scanOutput(lines, psOk) ==
    IF ~psOk THEN [err |-> TRUE, tunnels |-> <<>>]
    ELSE [err |-> FALSE, tunnels |-> scanLines(lines)]

\* main.go:290-327 on a process table
getActiveTunnels(table, psOk) == scanOutput(psOutput(table), psOk)

----------------------------------------------------------------------------
(* Process termination: killTunnel, killAllTunnels (main.go:329-347). *)

\* The user the program runs as; `kill` may signal this user's processes only.
Me == "me"

\* One external command run by the program
Call(cmd, pid, text, ok) == [cmd |-> cmd, pid |-> pid, text |-> text, ok |-> ok]

\* main.go:329-332: `kill <pid>` fails when no such process exists or when it
\* belongs to another user; when it succeeds the process ends.
killTunnel(pid, table) ==
    LET ok == \E k \in 1..Len(table) : table[k].pid = pid /\ table[k].user = Me
    IN  [err |-> ~ok,
         table |-> IF ok THEN SelectSeq(table, LAMBDA p : p.pid # pid) ELSE table,
         call |-> Call("kill", pid, "", ok)]

\* The loop of killAllTunnels returning the error of the first failed kill
RECURSIVE killEachAbort(_, _, _)
killEachAbort(ts, table, done) ==
    IF ts = <<>> THEN [err |-> FALSE, table |-> table, calls |-> done]
    ELSE LET k == killTunnel(Head(ts).PID, table)
         IN  IF k.err
             THEN [err |-> TRUE, table |-> k.table, calls |-> Append(done, k.call)]
             ELSE killEachAbort(Tail(ts), k.table, Append(done, k.call))

\* main.go:340-344: the loop of killAllTunnels; a failed kill is logged only
RECURSIVE killEach(_, _, _)
killEach(ts, table, done) ==
    IF ts = <<>> THEN [err |-> FALSE, table |-> table, calls |-> done]
    ELSE LET k == killTunnel(Head(ts).PID, table)
         IN  killEach(Tail(ts), k.table, Append(done, k.call))

\* killAllTunnels stopping after the first session of the scan
killOnlyFirst(table, psOk) ==
    LET scan == getActiveTunnels(table, psOk)
    IN  IF scan.err
        THEN [err |-> TRUE, table |-> table, calls |-> <<Call("ps", 0, "", FALSE)>>]
        ELSE killEach(IF scan.tunnels = <<>> THEN <<>> ELSE <<Head(scan.tunnels)>>,
                      table, <<Call("ps", 0, "", TRUE)>>)

\* main.go:334-347
killAllTunnels(table, psOk) ==
    LET scan == getActiveTunnels(table, psOk)
    IN  IF scan.err
        THEN [err |-> TRUE, table |-> table, calls |-> <<Call("ps", 0, "", FALSE)>>]
        ELSE killEach(scan.tunnels, table, <<Call("ps", 0, "", TRUE)>>)

----------------------------------------------------------------------------
(* SessionCatalog: loadAllItems (main.go:349-412), isSelectableItem. *)

\* isSelectableItem going by the name alone, whatever the entry's type
isSelectableItemByName(i) ==
    ~(Contains(i.name, "TUNNEL") \/ i.name = "")

\* main.go:200-206
isSelectableItem(i) ==
    ~(i.itemType = ItemAction /\ (Contains(i.name, "TUNNEL") \/ i.name = ""))

currentHeader == item("CURRENT TUNNEL", "", "", ItemAction, 0)

availableHeader == item("AVAILABLE TUNNELS", "", "", ItemAction, 0)

separator == item("", "", "", ItemAction, 0)

addNew == item("+ Add New Tunnel", "", "add_new", ItemAction, 0)

\* main.go:368-374 (the bullet that starts the name is written "*")
activeItem(tunnel) ==
    item("* " \o tunnel.Destination \o " (PID: " \o ToString(tunnel.PID)
            \o ") - Click to stop",
         tunnel.Destination, "kill " \o ToString(tunnel.PID),
         ItemActiveTunnel, tunnel.PID)

\* main.go:358-382 showing the last session of the scan instead of the first
activeSectionLast(active) ==
    IF Len(active) > 0
    THEN <<currentHeader, activeItem(active[Len(active)]), separator>>
    ELSE <<>>

\* main.go:358-382: the CURRENT TUNNEL section
activeSection(active) ==
    IF Len(active) > 0
    THEN <<currentHeader, activeItem(active[1]), separator>>
    ELSE <<>>

\* main.go:349-412 with the rows of equal definitions merged
loadAllItemsDedup(active, configItems) ==
    activeSection(active) \o <<availableHeader>>
        \o SelectSeq([k \in 1..Len(configItems) |->
                        IF \E j \in 1..(k - 1) : configItems[j] = configItems[k]
                        THEN separator ELSE configItems[k]],
                     LAMBDA i : i # separator)
        \o <<separator, addNew>>

\* main.go:349-412: active is the scan's result (empty when the scan failed),
\* configItems what loadConfigTunnels returned
loadAllItems(active, configItems) ==
    activeSection(active) \o <<availableHeader>> \o configItems
        \o <<separator, addNew>>

\* loadAllItems giving up when the scan fails
loadAllItemsScanFatal(table, psOk, configItems) ==
    LET scan == getActiveTunnels(table, psOk)
    IN  IF scan.err
        THEN [err |-> TRUE, active |-> <<>>, items |-> <<>>]
        ELSE [err |-> FALSE, active |-> scan.tunnels,
              items |-> loadAllItems(scan.tunnels, configItems)]

\* main.go:349-412 with its scan (352-356): a failed scan is logged and the
\* catalog is built from the nil slice the scan returned. No error is
\* returned: the only one of the code is that of reading the config file,
\* which is an input here.
loadAllItemsFrom(table, psOk, configItems) ==
    LET scan == getActiveTunnels(table, psOk)
    IN  [err |-> FALSE, active |-> scan.tunnels,
         items |-> loadAllItems(scan.tunnels, configItems)]

\* main selecting entry 0 whatever it is
firstSelectableZero(its) == 0

\* main.go:669-675: the index main selects, 0 when there is no selectable item
firstSelectable(its) ==
    LET sel == {i \in 0..(Len(its) - 1) : isSelectableItem(its[i + 1])}
    IN  IF sel = {} THEN 0 ELSE Min(sel)

----------------------------------------------------------------------------
(* SelectionController: model.Update (main.go:208-275). *)

Item(i) == items[i + 1]

\* main.go:223-228: the loop of the "up" key, from index i downwards
RECURSIVE scanUp(_, _, _)
scanUp(i, its, current) ==
    IF i < 0 THEN current
    ELSE IF isSelectableItem(its[i + 1]) THEN i
    ELSE scanUp(i - 1, its, current)

\* main.go:235-240: the loop of the "down" key, from index i upwards
RECURSIVE scanDown(_, _, _)
scanDown(i, its, current) ==
    IF i >= Len(its) THEN current
    ELSE IF isSelectableItem(its[i + 1]) THEN i
    ELSE scanDown(i + 1, its, current)

\* the "down" key stepping to the next entry whatever it is
moveDownNoSkip(current, its) ==
    IF current + 1 < Len(its) THEN current + 1 ELSE current

\* main.go:231-241
moveDown(current, its) == scanDown(current + 1, its, current)

\* main.go:220-229
moveUp(current, its) == scanUp(current - 1, its, current)

\* the "enter" key returning tea.Quit only inside the selectable branch
updateEnterStay(i, table, psOk) ==
    IF ~isSelectableItem(i)
    THEN [choice |-> "", table |-> table, calls |-> <<>>, quit |-> FALSE]
    ELSE IF i.itemType = ItemActiveTunnel
    THEN LET k == killTunnel(i.pid, table)
         IN  [choice |-> IF k.err THEN "Failed to stop tunnel: exit status 1"
                         ELSE "Tunnel stopped: " \o i.destination,
              table |-> k.table, calls |-> <<k.call>>, quit |-> TRUE]
    ELSE IF i.itemType = ItemAvailableTunnel
    THEN LET k == killAllTunnels(table, psOk)
         IN  [choice |-> i.command, table |-> k.table, calls |-> k.calls,
              quit |-> TRUE]
    ELSE [choice |-> IF i.command = "add_new" THEN "add_new_tunnel" ELSE "",
          table |-> table, calls |-> <<>>, quit |-> TRUE]

\* the "enter" key reporting a stopped tunnel whatever `kill` returned
updateEnterIgnoreKillError(i, table, psOk) ==
    IF ~isSelectableItem(i)
    THEN [choice |-> "", table |-> table, calls |-> <<>>, quit |-> TRUE]
    ELSE IF i.itemType = ItemActiveTunnel
    THEN LET k == killTunnel(i.pid, table)
         IN  [choice |-> "Tunnel stopped: " \o i.destination,
              table |-> k.table, calls |-> <<k.call>>, quit |-> TRUE]
    ELSE IF i.itemType = ItemAvailableTunnel
    THEN LET k == killAllTunnels(table, psOk)
         IN  [choice |-> i.command, table |-> k.table, calls |-> k.calls,
              quit |-> TRUE]
    ELSE [choice |-> IF i.command = "add_new" THEN "add_new_tunnel" ELSE "",
          table |-> table, calls |-> <<>>, quit |-> TRUE]

\* the "enter" key keeping the session open on an action row
updateEnterActionStays(i, table, psOk) ==
    IF ~isSelectableItem(i)
    THEN [choice |-> "", table |-> table, calls |-> <<>>, quit |-> TRUE]
    ELSE IF i.itemType = ItemActiveTunnel
    THEN LET k == killTunnel(i.pid, table)
         IN  [choice |-> IF k.err THEN "Failed to stop tunnel: exit status 1"
                         ELSE "Tunnel stopped: " \o i.destination,
              table |-> k.table, calls |-> <<k.call>>, quit |-> TRUE]
    ELSE IF i.itemType = ItemAvailableTunnel
    THEN LET k == killAllTunnels(table, psOk)
         IN  [choice |-> i.command, table |-> k.table, calls |-> k.calls,
              quit |-> TRUE]
    ELSE [choice |-> IF i.command = "add_new" THEN "add_new_tunnel" ELSE "",
          table |-> table, calls |-> <<>>, quit |-> FALSE]

\* the "enter" key yielding an action row's command like a tunnel's
updateEnterActionAsCommand(i, table, psOk) ==
    IF ~isSelectableItem(i)
    THEN [choice |-> "", table |-> table, calls |-> <<>>, quit |-> TRUE]
    ELSE IF i.itemType = ItemActiveTunnel
    THEN LET k == killTunnel(i.pid, table)
         IN  [choice |-> IF k.err THEN "Failed to stop tunnel: exit status 1"
                         ELSE "Tunnel stopped: " \o i.destination,
              table |-> k.table, calls |-> <<k.call>>, quit |-> TRUE]
    ELSE IF i.itemType = ItemAvailableTunnel
    THEN LET k == killAllTunnels(table, psOk)
         IN  [choice |-> i.command, table |-> k.table, calls |-> k.calls,
              quit |-> TRUE]
    ELSE [choice |-> i.command, table |-> table, calls |-> <<>>, quit |-> TRUE]

\* main.go:243-268: the "enter" key on entry i. The result is the new
\* m.choice ("" when it is not assigned), the process table and the commands
\* run, and whether tea.Quit is returned.
updateEnter(i, table, psOk) ==
    IF ~isSelectableItem(i)
    THEN [choice |-> "", table |-> table, calls |-> <<>>, quit |-> TRUE]
    ELSE IF i.itemType = ItemActiveTunnel
    THEN LET k == killTunnel(i.pid, table)
         IN  [choice |-> IF k.err THEN "Failed to stop tunnel: exit status 1"
                         ELSE "Tunnel stopped: " \o i.destination,
              table |-> k.table, calls |-> <<k.call>>, quit |-> TRUE]
    ELSE IF i.itemType = ItemAvailableTunnel
    THEN LET k == killAllTunnels(table, psOk)
         IN  [choice |-> i.command, table |-> k.table, calls |-> k.calls,
              quit |-> TRUE]
    ELSE [choice |-> IF i.command = "add_new" THEN "add_new_tunnel" ELSE "",
          table |-> table, calls |-> <<>>, quit |-> TRUE]

----------------------------------------------------------------------------
(* Inputs of the model. *)

\* Definitions a config file may hold (names need not be unique here: the
\* catalog does not check them)
DefSet ==
    { TunnelConfig("TUNNEL", "h", "u", "10.0.0.0/8", "--dns"),
      TunnelConfig("", "h", "u", "10.0.0.0/8", "-i k.pem --dns") }

SeqsUpTo(S, n) == UNION {[1..k -> S] : k \in 0..n}

\* Processes that may be running: owner and command line
ProcKinds ==
    { <<"root", "sshuttle -r u@a 10.0.0.0/8">>,
      <<Me, "sshuttle --dns -r u@b 0/0">>,
      <<Me, "bash">> }

\* Process tables: `ps` lists processes by ascending pid
ProcTables ==
    { [k \in 1..Len(t) |-> [pid |-> 100 + k, user |-> t[k][1], args |-> t[k][2]]] :
        t \in SeqsUpTo(ProcKinds, MaxProcs) }

\* The processes of a table that are tunnel sessions
IsTunnel(p) == HasPrefix(p.args, "sshuttle ")

----------------------------------------------------------------------------
(* The program. *)

Init ==
    /\ debugMode \in BOOLEAN
    /\ cfgExists \in BOOLEAN
    /\ tunnels \in SeqsUpTo(DefSet, MaxDefs)
    /\ (~cfgExists => tunnels = <<>>)
    /\ procs \in ProcTables
    /\ items = <<>>
    /\ index = 0
    /\ choice = ""
    /\ quitting = FALSE
    /\ pc = "start"
    /\ exitCode = -1
    /\ activeTunnels = <<>>
    /\ calls = <<>>
    /\ lastKey = ""
    /\ prevIndex = 0
    /\ before = <<>>
    /\ psText = <<>>
    /\ printed = <<>>
    /\ lastAdd = NoAdd

\* main.go:655-677: build the catalog, put the cursor on the first selectable
\* entry and start the navigation session; log.Fatal when the build fails
Start ==
    /\ pc = "start"
    /\ \E psOk \in BOOLEAN :
        LET r == loadAllItemsFrom(procs, psOk,
                                  loadConfigTunnels(cfgExists, tunnels, debugMode))
        IN  /\ activeTunnels' = r.active
            /\ items' = r.items
            /\ index' = IF r.err THEN 0 ELSE firstSelectable(r.items)
            /\ calls' = Append(calls, Call("ps", 0, "", psOk))
            /\ psText' = IF psOk THEN psOutput(procs) ELSE <<>>
            /\ pc' = IF r.err THEN "exit" ELSE "nav"
            /\ exitCode' = IF r.err THEN 1 ELSE exitCode
    /\ UNCHANGED <<debugMode, cfgExists, tunnels, procs, choice, quitting,
                   lastKey, prevIndex, before, printed, lastAdd>>

\* A key message after which the catalog is built again from a new scan
KeyRebuild(k) ==
    /\ pc = "nav"
    /\ lastKey' = k
    /\ prevIndex' = index
    /\ before' = procs
    /\ items' = loadAllItemsFrom(procs, TRUE,
                     loadConfigTunnels(cfgExists, tunnels, debugMode)).items
    /\ UNCHANGED <<debugMode, cfgExists, tunnels, exitCode, activeTunnels,
                   psText, printed, lastAdd>>

\* main.go:214-215: a key message while the session runs; the catalog and the
\* process's inputs are left alone by every key
Key(k) ==
    /\ pc = "nav"
    /\ lastKey' = k
    /\ prevIndex' = index
    /\ before' = procs
    /\ UNCHANGED <<debugMode, cfgExists, tunnels, items, exitCode, activeTunnels,
                   psText, printed, lastAdd>>

\* main.go:216-218: "ctrl+c", "q"
KeyQuit ==
    /\ Key("q")
    /\ quitting' = TRUE
    /\ pc' = "ended"
    /\ UNCHANGED <<index, choice, procs, calls>>

\* main.go:220-229: "up", "k"
KeyUp ==
    /\ Key("up")
    /\ index' = moveUp(index, items)
    /\ UNCHANGED <<choice, quitting, pc, procs, calls>>

\* main.go:231-241: "down", "j"
KeyDown ==
    /\ Key("down")
    /\ index' = moveDown(index, items)
    /\ UNCHANGED <<choice, quitting, pc, procs, calls>>

\* main.go:243-268: "enter"
KeyEnter ==
    /\ Key("enter")
    /\ \E psOk \in BOOLEAN :
        LET r == updateEnter(Item(index), procs, psOk)
        IN  /\ choice' = r.choice
            /\ procs' = r.table
            /\ calls' = calls \o r.calls
            /\ pc' = IF r.quit THEN "ended" ELSE "nav"
    /\ UNCHANGED <<index, quitting>>

\* main.go:272-274: any other key goes to the list's own Update. Of the list
\* component's default key bindings, "home"/"g" puts the cursor on entry 0,
\* "end"/"G" on the last entry, and "esc" quits. (The catalogs here fit on one
\* page, so the paging keys do nothing; filtering is not modelled.)
ListGoToStart ==
    /\ Key("home")
    /\ index' = 0
    /\ UNCHANGED <<choice, quitting, pc, procs, calls>>

ListGoToEnd ==
    /\ Key("end")
    /\ index' = Len(items) - 1
    /\ UNCHANGED <<choice, quitting, pc, procs, calls>>

ListQuit ==
    /\ Key("esc")
    /\ pc' = "ended"
    /\ UNCHANGED <<index, choice, quitting, procs, calls>>

\* main's test for a status message knowing the success message only
IsStatusStoppedOnly(c) == HasPrefix(c, "Tunnel stopped:")

\* main.go:689-692: the choice is a status message
IsStatus(c) ==
    \/ HasPrefix(c, "Tunnel stopped:")
    \/ HasPrefix(c, "Failed to stop")
    \/ HasPrefix(c, "All tunnels killed")
    \/ HasPrefix(c, "Failed to kill")

\* main.go:685-704: after the session, print the result or hand the command
\* to the shell
Execute ==
    /\ pc = "ended"
    /\ IF choice = "" \/ choice = "add_new_tunnel" \/ IsStatus(choice)
       THEN /\ pc' = "exit"
            /\ exitCode' = 0
            /\ printed' =
                   IF choice = "" THEN printed
                   ELSE IF choice = "add_new_tunnel"
                   THEN Append(printed, "Coming soon: Interactive tunnel creation")
                   ELSE Append(printed, choice)
            /\ UNCHANGED <<procs, calls>>
       ELSE /\ pc' = "launched"
            /\ printed' = Append(printed, "Starting tunnel...")
            /\ calls' = Append(calls, Call("sh", 0, choice, TRUE))
            /\ procs' = Append(procs, [pid |-> 200, user |-> Me, args |-> choice])
            /\ UNCHANGED exitCode
    /\ UNCHANGED <<debugMode, cfgExists, tunnels, items, index, choice, quitting,
                   activeTunnels, lastKey, prevIndex, before, psText, lastAdd>>

\* main.go:705-710: cmd.Run() returns. With --daemon the tunnel stays in the
\* background after a successful start; otherwise it has ended.
CommandReturns ==
    /\ pc = "launched"
    /\ \E ok \in BOOLEAN :
        /\ exitCode' = IF ok THEN 0 ELSE 1
        /\ procs' = IF ok /\ Contains(choice, "--daemon") THEN procs
                    ELSE SelectSeq(procs, LAMBDA p : p.pid # 200)
        /\ printed' = IF ok THEN printed
                      ELSE Append(printed, "Error executing command: exit status 1")
    /\ pc' = "exit"
    /\ UNCHANGED <<debugMode, cfgExists, tunnels, items, index, choice, quitting,
                   activeTunnels, calls, lastKey, prevIndex, before, psText,
                   lastAdd>>

Next ==
    \/ Start
    \/ KeyQuit
    \/ KeyUp
    \/ KeyDown
    \/ KeyEnter
    \/ ListGoToStart
    \/ ListGoToEnd
    \/ ListQuit
    \/ Execute
    \/ CommandReturns

Spec == Init /\ [][Next]_vars

----------------------------------------------------------------------------
(* Vocabulary of the properties. *)

Pids(table) == {table[k].pid : k \in 1..Len(table)}

\* The tunnel sessions of a process table
TunnelPids(table) == {table[k].pid : k \in {j \in 1..Len(table) : IsTunnel(table[j])}}

\* What a successful scan of a process table reports, in order
ScannedPids(table) ==
    LET found == scanLines(psOutput(table))
    IN  [k \in 1..Len(found) |-> found[k].PID]

ShellCalls == {j \in 1..Len(calls) : calls[j].cmd = "sh"}

KillCalls == {j \in 1..Len(calls) : calls[j].cmd = "kill"}

\* Process ids for which `kill` was run, and had returned, before any `sh`
KilledBeforeShell ==
    {calls[j].pid : j \in {k \in KillCalls : \A m \in ShellCalls : k < m}}

\* The last key was enter, pressed on an available-tunnel row
ConfirmedAvailable ==
    /\ lastKey = "enter"
    /\ Item(index).itemType = ItemAvailableTunnel

----------------------------------------------------------------------------
C2_NoCoexistingTunnels ==
    (ConfirmedAvailable /\ ShellCalls # {}) =>
        TunnelPids(before) \cap Pids(procs) = {}

(* C3 as stated: enter on a non-selectable entry changes nothing and the    *)
(* navigation session keeps running.                                        *)
C3_EnterOnHeaderKeepsRunning ==
    [][(pc = "nav" /\ lastKey' = "enter" /\ ~isSelectableItem(Item(index))) =>
          /\ index' = index
          /\ items' = items
          /\ choice' = choice
          /\ calls' = calls
          /\ procs' = procs
          /\ pc' = "nav"]_vars

(* C3 amended: enter on a non-selectable entry (section header, separator)  *)
(* leaves the cursor, the catalog and the pending result unchanged, the     *)
(* result stays empty (no action), no command (scan, kill) is run; but the  *)
(* navigation session ends.                                                 *)
C3_EnterOnHeaderEndsSession ==
    [][(pc = "nav" /\ lastKey' = "enter" /\ ~isSelectableItem(Item(index))) =>
          /\ index' = index
          /\ items' = items
          /\ choice' = choice
          /\ choice' = ""
          /\ quitting' = quitting
          /\ calls' = calls
          /\ procs' = procs
          /\ pc' = "ended"]_vars

\* Enter has been pressed with the cursor on a header
C3_Witness ==
    /\ lastKey = "enter"
    /\ ~isSelectableItem(Item(index))
    /\ pc = "ended"

(* C4: while the navigation session runs, the cursor is on a selectable     *)
(* entry.                                                                   *)
C4_CursorOnSelectable ==
    pc = "nav" => isSelectableItem(Item(index))

(* C5: the "down" key puts the cursor on the smallest index above the       *)
(* current one whose entry is selectable, the "up" key on the largest index *)
(* below it; when there is none in that direction the cursor stays (no      *)
(* wraparound).                                                             *)
C5_MoveToNearestSelectable ==
    /\ lastKey = "down" =>
           LET above == {i \in (prevIndex + 1)..(Len(items) - 1) :
                            isSelectableItem(Item(i))}
           IN  index = IF above = {} THEN prevIndex ELSE Min(above)
    /\ lastKey = "up" =>
           LET below == {i \in 0..(prevIndex - 1) : isSelectableItem(Item(i))}
           IN  index = IF below = {} THEN prevIndex ELSE Max(below)

\* "down" from the active row went over the separator and the header
C5_Witness ==
    /\ lastKey = "down"
    /\ index = prevIndex + 3
    /\ Item(prevIndex).itemType = ItemActiveTunnel
    /\ ~isSelectableItem(Item(prevIndex + 1))
    /\ ~isSelectableItem(Item(prevIndex + 2))

\* The definitions the catalog is built from: those of the config file, or
\* the built-in example when there is no file
Definitions ==
    IF cfgExists
    THEN [j \in 1..Len(tunnels) |->
            [name |-> tunnels[j].Name,
             destination |-> tunnels[j].User \o "@" \o tunnels[j].Host]]
    ELSE <<[name |-> "Example Server", destination |-> "user@example.com"]>>

IsHeader(i, title) ==
    /\ i.itemType = ItemAction
    /\ i.name = title
    /\ i.command = ""

IsSeparator(i) ==
    /\ i.itemType = ItemAction
    /\ i.name = ""
    /\ i.command = ""

(* C6: the catalog is, in this order: header CURRENT TUNNEL, one active     *)
(* row and a separator exactly when the scan of the build found a session;  *)
(* header AVAILABLE TUNNELS; one available row per definition in input      *)
(* order, none merged or moved; a separator; the Add New action row.        *)
C6_CatalogLayout ==
    pc # "start" =>
        LET a == IF Len(activeTunnels) > 0 THEN 3 ELSE 0
            n == Len(Definitions)
        IN  /\ Len(items) = a + 1 + n + 2
            /\ a = 3 =>
                   /\ IsHeader(items[1], "CURRENT TUNNEL")
                   /\ items[2].itemType = ItemActiveTunnel
                   /\ IsSeparator(items[3])
            /\ IsHeader(items[a + 1], "AVAILABLE TUNNELS")
            /\ \A j \in 1..n :
                   /\ items[a + 1 + j].itemType = ItemAvailableTunnel
                   /\ items[a + 1 + j].name = Definitions[j].name
                   /\ items[a + 1 + j].destination = Definitions[j].destination
            /\ IsSeparator(items[a + n + 2])
            /\ items[a + n + 3].itemType = ItemAction
            /\ items[a + n + 3].name = "+ Add New Tunnel"
            /\ items[a + n + 3].command = "add_new"

\* A session was found and the file holds the same definition twice
C6_Witness ==
    /\ pc = "nav"
    /\ Len(activeTunnels) = 1
    /\ Len(tunnels) = 2
    /\ tunnels[1] = tunnels[2]
    /\ Len(items) = 8

ActiveRows == {j \in 1..Len(items) : items[j].itemType = ItemActiveTunnel}

(* C7: a catalog holds at most one active-session row; when the scan found  *)
(* sessions, the row is the one of the first session found (its pid and     *)
(* destination), and there is none when the scan found no session.          *)
C7_OneActiveRowTheFirst ==
    pc # "start" =>
        /\ Cardinality(ActiveRows) <= 1
        /\ Len(activeTunnels) = 0 => ActiveRows = {}
        /\ Len(activeTunnels) > 0 =>
               \E j \in ActiveRows :
                   /\ items[j].pid = activeTunnels[1].PID
                   /\ items[j].destination = activeTunnels[1].Destination

\* Two sessions with different destinations were found, one row is shown
C7_Witness ==
    /\ pc = "nav"
    /\ Len(activeTunnels) = 2
    /\ activeTunnels[1].Destination # activeTunnels[2].Destination
    /\ Cardinality(ActiveRows) = 1

----------------------------------------------------------------------------
(* The command builder on its own: one definition drawn from a wider set,   *)
(* resolved by the catalog build.                                           *)

BuildUsers == {"u", "ec2-user"}

BuildHosts == {"h", "gw-v"}

BuildSubnets == {"10.0.0.0/8", "10.0.0.0/8,172.16.0.0/12"}

KeyPaths == {"k.pem", "~/.ssh/k.pem"}

FurtherFlags == {"--dns"}

BuildExtraArgs ==
    {"", "--dns", "-v --dns", "--daemon", "-x 10.0.0.1 -v", "-i k.pem",
     "--dns -i k.pem"}
        \cup {"-i " \o k \o " " \o f : k \in KeyPaths, f \in FurtherFlags}

BuildDefs ==
    {TunnelConfig("t", h, u, n, x) :
        h \in BuildHosts, u \in BuildUsers, n \in BuildSubnets, x \in BuildExtraArgs}

InitBuild ==
    /\ debugMode \in BOOLEAN
    /\ cfgExists = TRUE
    /\ tunnels \in {<<d>> : d \in BuildDefs}
    /\ procs = <<>>
    /\ items = <<>>
    /\ index = 0
    /\ choice = ""
    /\ quitting = FALSE
    /\ pc = "start"
    /\ exitCode = -1
    /\ activeTunnels = <<>>
    /\ calls = <<>>
    /\ lastKey = ""
    /\ prevIndex = 0
    /\ before = <<>>
    /\ psText = <<>>
    /\ printed = <<>>
    /\ lastAdd = NoAdd

NextBuild == Start

SpecBuild == InitBuild /\ [][NextBuild]_vars

\* The available row of definition j of the config file
Row(j) == items[Len(items) - 2 - Len(tunnels) + j]

\* Whether one of the definition's fields contains sub
FieldContains(t, sub) ==
    \/ Contains(t.User, sub)
    \/ Contains(t.Host, sub)
    \/ Contains(t.Subnets, sub)
    \/ Contains(t.ExtraArgs, sub)

\* The --ssh-cmd="..." option of a command: its position, and the position
\* of its closing quote
SshOptionStart(c) == IndexFrom(c, "--ssh-cmd=\"", 1)

SshOptionEnd(c) == IndexFrom(c, "\"", SshOptionStart(c) + Len("--ssh-cmd=\""))

\* The text between the quotes of --ssh-cmd="..."
SshOptionText(c) ==
    SubSeq(c, SshOptionStart(c) + Len("--ssh-cmd=\""), SshOptionEnd(c) - 1)

\* The pass-through portion: what follows the closing quote
Trailing(c) == SubSeq(c, SshOptionEnd(c) + 1, Len(c))

Built == pc # "start" /\ cfgExists

(* C8 as stated: for every definition, the command built in normal mode     *)
(* contains --daemon and never "-v ", and the command built in debug mode   *)
(* contains "-v " and never --daemon.                                       *)
C8_DaemonXorVerbose ==
    Built =>
        \A j \in 1..Len(tunnels) :
            IF debugMode
            THEN /\ Contains(Row(j).command, "-v ")
                 /\ ~Contains(Row(j).command, "--daemon")
            ELSE /\ Contains(Row(j).command, "--daemon")
                 /\ ~Contains(Row(j).command, "-v ")

(* C8 amended: the command built in normal mode contains --daemon, and it   *)
(* does not contain "-v " provided none of the definition's user, host,     *)
(* subnets and extra-args contains "-v"; the command built in debug mode    *)
(* contains "-v ", and it does not contain --daemon provided none of these  *)
(* fields contains "--daemon".                                              *)
C8_DaemonXorVerboseOfBuilder ==
    Built =>
        \A j \in 1..Len(tunnels) :
            IF debugMode
            THEN /\ Contains(Row(j).command, "-v ")
                 /\ ~FieldContains(tunnels[j], "--daemon") =>
                        ~Contains(Row(j).command, "--daemon")
            ELSE /\ Contains(Row(j).command, "--daemon")
                 /\ ~FieldContains(tunnels[j], "-v") =>
                        ~Contains(Row(j).command, "-v ")

\* A normal-mode command of a definition with a key and no "-v" of its own
C8_Witness ==
    /\ Built
    /\ ~debugMode
    /\ Len(tunnels) = 1
    /\ tunnels[1].ExtraArgs = "-i k.pem"
    /\ ~FieldContains(tunnels[1], "-v")
    /\ Contains(Row(1).command, "--daemon")
    /\ ~Contains(Row(1).command, "-v ")

(* C9: for extra-args made of the key flag, a key path and a further flag   *)
(* ("-i ~/.ssh/k.pem --dns"), the --ssh-cmd option of the resolved command  *)
(* contains "-i <key path>" and the portion after the option's closing      *)
(* quote contains the further flag.                                         *)
C9_KeyInSshCmdFlagPassedThrough ==
    Built =>
        \A j \in 1..Len(tunnels) : \A k \in KeyPaths : \A f \in FurtherFlags :
            tunnels[j].ExtraArgs = "-i " \o k \o " " \o f =>
                /\ Contains(SshOptionText(Row(j).command), "-i " \o k)
                /\ Contains(Trailing(Row(j).command), f)

(* C10: when extra-args contains the key flag "-i ", the key option of the  *)
(* --ssh-cmd option is exactly the single token that follows the flag       *)
(* (white space trimmed, ending at the next space), and that token does not *)
(* appear in the pass-through portion.                                      *)
C10_KeyIsOneToken ==
    Built =>
        \A j \in 1..Len(tunnels) :
            Contains(tunnels[j].ExtraArgs, "-i ") =>
                LET rest == TrimSpace(SplitSecond(tunnels[j].ExtraArgs, "-i "))
                    key == SplitFirst(rest, " ")
                IN  /\ SshOptionText(Row(j).command) =
                           "ssh -o StrictHostKeyChecking=no -i " \o key
                               \o (IF debugMode THEN " -vvv" ELSE "")
                    /\ ~Contains(Trailing(Row(j).command), key)

----------------------------------------------------------------------------
(* The scanner on its own: getActiveTunnels (main.go:290-327) applied to
   listings of up to MaxLines lines, well-formed or not. *)

MaxLines == 3

\* Lines a listing may hold: two tunnels, a tunnel line whose second field is
\* not a number, a line of one field, an editor and a grep naming the tool,
\* and tunnel lines whose second field is 0 or negative.
ListingLines ==
    { "me 101 sshuttle -r u@a 10/8",
      "root 102 sshuttle --dns -r u@b 0/0",
      "me x sshuttle -r u@c 0/0",
      "sshuttle-r",
      "me 103 vim sshuttle.txt",
      "me 104 grep -r sshuttle",
      "me 0 sshuttle -r u@d 0/0",
      "me -5 sshuttle -r u@e 0/0" }

InitScan ==
    /\ psText \in SeqsUpTo(ListingLines, MaxLines)
    /\ debugMode = FALSE
    /\ cfgExists = FALSE
    /\ tunnels = <<>>
    /\ procs = <<>>
    /\ items = <<>>
    /\ index = 0
    /\ choice = ""
    /\ quitting = FALSE
    /\ pc = "scan"
    /\ exitCode = -1
    /\ activeTunnels = <<>>
    /\ calls = <<>>
    /\ lastKey = ""
    /\ prevIndex = 0
    /\ before = <<>>
    /\ printed = <<>>
    /\ lastAdd = NoAdd

\* main.go:290-327: one call of getActiveTunnels; `ps aux` may fail to run
ScanListing ==
    /\ pc = "scan"
    /\ \E psOk \in BOOLEAN :
        LET scan == scanOutput(psText, psOk)
        IN  /\ activeTunnels' = scan.tunnels
            /\ calls' = Append(calls, Call("ps", 0, "", ~scan.err))
    /\ pc' = "scanned"
    /\ UNCHANGED <<debugMode, cfgExists, tunnels, procs, items, index, choice,
                   quitting, exitCode, lastKey, prevIndex, before, psText,
                   printed, lastAdd>>

NextScan == ScanListing

SpecScan == InitScan /\ [][NextScan]_vars

\* The scan has returned without an error
Scanned == pc = "scanned" /\ calls[1].ok

\* The line names the tool and the remote flag
Matching(line) == Contains(line, "sshuttle") /\ Contains(line, "-r")

\* The line has a second field and strconv.Atoi accepts it
HasPid(line) == Len(Fields(line)) > 1 /\ ~Atoi(Fields(line)[2]).err

\* C11: a scan that could read the listing returns, in the listing's order,
\* exactly one session per line that names both the tool and the remote flag
\* and whose second field parses as an integer, with that integer as its
\* process id; so no matching line gives the empty result without an error,
\* and a matching line with a non-numeric second field is left out while the
\* other lines are kept.
C11_OneSessionPerMatchingLine ==
    Scanned =>
        LET kept == SelectSeq(psText, LAMBDA l : Matching(l) /\ HasPid(l))
        IN  /\ Len(activeTunnels) = Len(kept)
            /\ \A k \in 1..Len(kept) :
                  /\ activeTunnels[k].Command = kept[k]
                  /\ activeTunnels[k].PID = Atoi(Fields(kept[k])[2]).val
            /\ ((\A i \in 1..Len(psText) : ~Matching(psText[i]))
                   => activeTunnels = <<>>)

\* C11 witness: a listing with a tunnel line whose second field is not a
\* number, a line that does not name the flag, and a valid line after them
C11_Witness ==
    /\ Scanned
    /\ psText = << "me x sshuttle -r u@c 0/0", "me 103 vim sshuttle.txt",
                   "me 101 sshuttle -r u@a 10/8" >>
    /\ Len(activeTunnels) = 1
    /\ activeTunnels[1].PID = 101

\* C19: every session a scan returns has a positive process id
C19_PidsPositive ==
    Scanned => \A k \in 1..Len(activeTunnels) : activeTunnels[k].PID > 0

----------------------------------------------------------------------------
(* Claims about the confirm key, the catalog build and the session's end,   *)
(* checked on the whole program (Spec).                                     *)

\* The last key was enter, pressed on the active-session row
ConfirmedActive ==
    /\ lastKey = "enter"
    /\ Item(index).itemType = ItemActiveTunnel

\* C12: enter on the active-session row runs `kill` exactly once, for that
\* row's process id; the session's result is the status "Tunnel stopped: ..."
\* exactly when that kill succeeded and "Failed to stop tunnel: <error>"
\* exactly when it failed; nothing is handed to the shell, and the status is
\* what main prints.
C12_StopReportsKillOutcome ==
    ConfirmedActive =>
        /\ Cardinality(KillCalls) = 1
        /\ \A j \in KillCalls :
              /\ calls[j].pid = Item(index).pid
              /\ calls[j].ok <=>
                    choice = "Tunnel stopped: " \o Item(index).destination
              /\ ~calls[j].ok <=>
                    choice = "Failed to stop tunnel: exit status 1"
        /\ ShellCalls = {}
        /\ pc \in {"ended", "exit"}
        /\ pc = "exit" => printed = <<choice>>

\* C12 witness: the row's tunnel belongs to another user, `kill` failed and
\* the failure was printed
C12_Witness ==
    /\ ConfirmedActive
    /\ pc = "exit"
    /\ \E j \in KillCalls : ~calls[j].ok /\ calls[j].pid = Item(index).pid
    /\ HasPrefix(choice, "Failed to stop tunnel: ")

\* C13: when the scan of the catalog build fails, the build goes through and
\* the catalog is the one of no active session: no CURRENT TUNNEL header and
\* no active row, the AVAILABLE TUNNELS header, one row per definition, a
\* separator and the Add New row.
C13_ScanFailureGivesCatalogWithoutActive ==
    (pc # "start" /\ ~calls[1].ok) =>
        LET n == Len(Definitions)
        IN  /\ activeTunnels = <<>>
            /\ Len(items) = n + 3
            /\ ActiveRows = {}
            /\ \A j \in 1..Len(items) : ~IsHeader(items[j], "CURRENT TUNNEL")
            /\ IsHeader(items[1], "AVAILABLE TUNNELS")
            /\ \A j \in 1..n :
                  /\ items[1 + j].itemType = ItemAvailableTunnel
                  /\ items[1 + j].name = Definitions[j].name
            /\ IsSeparator(items[n + 2])
            /\ items[n + 3] = addNew

\* C13 witness: a tunnel is running, the scan of the build failed and the
\* navigation session started on a catalog of two definitions
C13_Witness ==
    /\ pc = "nav"
    /\ ~calls[1].ok
    /\ TunnelPids(procs) # {}
    /\ Len(tunnels) = 2
    /\ Len(items) = 5

\* C14: in the bulk termination of a confirmed available row whose scan
\* reported n sessions, `kill` is run n times; after a failed kill the next
\* session's kill is still run; killAllTunnels returns no error for failed
\* kills, and the row's command is yielded.
C14_FailedKillDoesNotAbort ==
    (ConfirmedAvailable /\ Len(calls) >= 2 /\ calls[2].ok) =>
        LET pids == ScannedPids(before)
            n == Len(pids)
        IN  /\ Cardinality(KillCalls) = n
            /\ \A j \in KillCalls :
                  (~calls[j].ok /\ j < 2 + n) =>
                      /\ j + 1 \in KillCalls
                      /\ calls[j + 1].pid = pids[j - 1]
            /\ ~killAllTunnels(before, TRUE).err
            /\ choice = Item(index).command

\* C14 witness: the first of two sessions could not be killed, the second
\* one was killed after it, and the command went out
C14_Witness ==
    /\ ConfirmedAvailable
    /\ pc = "launched"
    /\ Len(calls) >= 4
    /\ calls[3].cmd = "kill" /\ ~calls[3].ok
    /\ calls[4].cmd = "kill" /\ calls[4].ok

\* C15: in every catalog an entry is non-selectable exactly when it is one
\* of the two section headers or a separator; the active row, every
\* available row (also one named "TUNNEL" or "") and the Add New row are
\* selectable.
C15_OnlyHeadersAndSeparatorsUnselectable ==
    pc # "start" =>
        \A j \in 1..Len(items) :
            /\ ~isSelectableItem(items[j]) <=>
                  \/ IsHeader(items[j], "CURRENT TUNNEL")
                  \/ IsHeader(items[j], "AVAILABLE TUNNELS")
                  \/ IsSeparator(items[j])
            /\ items[j].itemType \in {ItemActiveTunnel, ItemAvailableTunnel}
                  => isSelectableItem(items[j])
            /\ items[j] = addNew => isSelectableItem(items[j])

\* C15 witness: a catalog with an active row, a row named "TUNNEL" and a row
\* with the empty name
C15_Witness ==
    /\ pc = "nav"
    /\ ActiveRows # {}
    /\ \E j, k \in 1..Len(items) :
          /\ items[j].itemType = ItemAvailableTunnel /\ items[j].name = "TUNNEL"
          /\ items[k].itemType = ItemAvailableTunnel /\ items[k].name = ""

\* C16: when the navigation session starts, the cursor is on the selectable
\* entry of lowest index; and every catalog ends with the Add New row, which
\* is selectable, so there is one.
C16_CursorStartsOnFirstSelectable ==
    /\ (pc = "nav" /\ lastKey = "") =>
          /\ isSelectableItem(Item(index))
          /\ \A j \in 0..(index - 1) : ~isSelectableItem(Item(j))
    /\ pc # "start" =>
          /\ Len(items) > 0
          /\ items[Len(items)] = addNew
          /\ isSelectableItem(items[Len(items)])

\* C16 witness: a config file without definitions, the session starts with
\* the cursor on the Add New row
C16_Witness ==
    /\ pc = "nav"
    /\ lastKey = ""
    /\ cfgExists
    /\ tunnels = <<>>
    /\ index > 0
    /\ Item(index) = addNew

\* The four kinds of result a session hands over
IsSentinel(c) == c = "add_new_tunnel"

IsNone(c) == c = ""

IsCommandString(c) == HasPrefix(c, "sshuttle ")

ResultKinds(c) ==
    {k \in {"status", "command", "sentinel", "none"} :
        \/ k = "status" /\ IsStatus(c)
        \/ k = "command" /\ IsCommandString(c)
        \/ k = "sentinel" /\ IsSentinel(c)
        \/ k = "none" /\ IsNone(c)}

\* C17: a key ends the navigation session exactly when it is enter or a quit
\* key (q, ctrl+c, the list's esc); the moving keys leave the session and
\* its result alone; the result at the end is of exactly one of the four
\* kinds; a quit key leaves the result empty and runs no command; and after
\* the end the result goes to the executor unchanged, which starts the shell
\* exactly for a command string.
C17_EndsOnConfirmOrQuit ==
    [][ /\ pc = "nav" =>
            /\ (pc' = "ended") <=> (lastKey' \in {"enter", "q", "esc"})
            /\ (pc' # "ended") => (pc' = "nav" /\ choice' = choice)
            /\ (lastKey' \in {"q", "esc"}) =>
                  (choice' = "" /\ calls' = calls /\ procs' = procs)
            /\ (pc' = "ended") => Cardinality(ResultKinds(choice')) = 1
        /\ pc = "ended" =>
            /\ choice' = choice
            /\ (pc' = "launched") <=> IsCommandString(choice)
      ]_vars

\* C17 witness: the session ended on q while a tunnel was running
C17_Witness ==
    /\ pc = "ended"
    /\ lastKey = "q"
    /\ quitting
    /\ choice = ""
    /\ TunnelPids(procs) # {}
    /\ KillCalls = {}

\* The last key was enter, pressed on the Add New row
ConfirmedAddNew ==
    /\ lastKey = "enter"
    /\ Item(index) = addNew

\* C20: enter on the Add New row yields the sentinel "add_new_tunnel"; no
\* `kill` is run and no process ends, nothing is handed to the shell, and
\* main prints the "Coming soon" line only and returns.
C20_AddNewYieldsSentinelOnly ==
    ConfirmedAddNew =>
        /\ choice = "add_new_tunnel"
        /\ KillCalls = {}
        /\ ShellCalls = {}
        /\ procs = before
        /\ pc \in {"ended", "exit"}
        /\ pc = "exit" =>
              /\ printed = <<"Coming soon: Interactive tunnel creation">>
              /\ exitCode = 0

\* C20 witness: with a tunnel running, Add New was confirmed and main returned
C20_Witness ==
    /\ ConfirmedAddNew
    /\ pc = "exit"
    /\ TunnelPids(procs) # {}
    /\ Len(printed) = 1

----------------------------------------------------------------------------
(* The -add mode: handleAddCommand (main.go:486-547) and the branch of main *)
(* that calls it (main.go:644-651). Each run is one process; the config     *)
(* file (cfgExists, tunnels) is what one run leaves to the next.            *)

\* strings.Split(s, sep) for a non-empty sep
RECURSIVE Split(_, _)
Split(s, sep) ==
    LET at == IndexFrom(s, sep, 1)
    IN  IF at = 0 THEN <<s>>
        ELSE <<SubSeq(s, 1, at - 1)>>
                \o Split(SubSeq(s, at + Len(sep), Len(s)), sep)

\* strings.ToLower on the letters that occur in the answers here
LowerOf(c) ==
    IF c = "Y" THEN "y" ELSE IF c = "E" THEN "e" ELSE IF c = "S" THEN "s"
    ELSE IF c = "N" THEN "n" ELSE c

RECURSIVE ToLower(_)
ToLower(s) ==
    IF s = "" THEN "" ELSE LowerOf(SubSeq(s, 1, 1)) \o ToLower(SubSeq(s, 2, Len(s)))

\* A decimal number of one to three digits without sign
IsNumber(s) ==
    /\ Len(s) \in 1..3
    /\ \A i \in 1..Len(s) : IsDigit(SubSeq(s, i, i))

\* net.ParseCIDR accepting s, for IPv4 text: four octets of at most 255, a
\* slash and a prefix length of at most 32
IsCIDR(s) ==
    \E parts \in {Split(s, "/")} :
        /\ Len(parts) = 2
        /\ IsNumber(parts[2])
        /\ DecVal(parts[2]) <= 32
        /\ \E octets \in {Split(parts[1], ".")} :
              /\ Len(octets) = 4
              /\ \A k \in 1..4 : IsNumber(octets[k]) /\ DecVal(octets[k]) <= 255

\* main.go:549-559: the error of validateSubnets, "" for nil
RECURSIVE firstBadSubnet(_)
firstBadSubnet(subnetsSlice) ==
    IF subnetsSlice = <<>> THEN ""
    ELSE LET subnet == TrimSpace(Head(subnetsSlice))
         IN  IF ~IsCIDR(subnet) THEN "invalid CIDR '" \o subnet \o "'"
             ELSE firstBadSubnet(Tail(subnetsSlice))

validateSubnets(subnets) == firstBadSubnet(Split(subnets, ","))

\* main.go:561-573: the arguments of the ssh connectivity test
sshTestArgs(user, host, extraArgs) ==
    "-o ConnectTimeout=10 -o BatchMode=yes -o StrictHostKeyChecking=no"
        \o (IF Contains(extraArgs, "-i ")
            THEN " -i " \o SplitFirst(TrimSpace(SplitSecond(extraArgs, "-i ")), " ")
            ELSE "")
        \o " " \o user \o "@" \o host \o " exit"

\* main.go:488-499: the error of the required-flag checks, "" for none
requiredError(a) ==
    IF a.Name = "" THEN "tunnel name is required (use -name)"
    ELSE IF a.Host = "" THEN "SSH hostname is required (use -host)"
    ELSE IF a.User = "" THEN "SSH username is required (use -user)"
    ELSE IF a.Subnets = "" THEN "subnets are required (use -subnets)"
    ELSE ""

\* main.go:580-610: the config read by loadOrCreateConfig; an absent file is
\* the empty config, a file that cannot be read or parsed is an error
loadOrCreateConfig(exists, ts, loadOk) ==
    IF ~exists THEN [err |-> "", Tunnels |-> <<>>]
    ELSE IF ~loadOk THEN [err |-> "cannot read config", Tunnels |-> <<>>]
    ELSE [err |-> "", Tunnels |-> ts]

\* The duplicate check letting every name through
duplicateNameNever(ts, name) == FALSE

\* main.go:523-527: some stored definition has this name
duplicateName(ts, name) == \E j \in 1..Len(ts) : ts[j].Name = name

\* What the run prints when the connectivity test fails (main.go:508-509)
sshWarning ==
    << "Warning: SSH connectivity test failed: exit status 255",
       "Continue anyway? [y/N]: " >>

\* main.go:488-504: the error of the checks made on the flags alone, "" when
\* they pass
argsError(a) ==
    LET missing == requiredError(a)
        bad == validateSubnets(a.Subnets)
    IN  IF missing # "" THEN missing
        ELSE IF bad # "" THEN "invalid subnet format: " \o bad
        ELSE ""

\* main.go:506-546: handleAddCommand once the flags have passed. a holds the
\* five flags; exists and ts are the config file; env holds what the
\* environment answers: whether the ssh test succeeds, the line typed at the
\* prompt, whether the file can be read and whether it can be written. The
\* result is the error ("" for nil), the file afterwards, the lines printed
\* and the commands run. (A write that fails leaves the file as it was.)
addChecked(a, exists, ts, env) ==
    LET ssh == Call("ssh", 0, sshTestArgs(a.User, a.Host, a.ExtraArgs), env.sshOk)
        out == IF env.sshOk THEN <<>> ELSE sshWarning
        same(err) ==
            [err |-> err, exists |-> exists, Tunnels |-> ts,
             printed |-> out, calls |-> <<ssh>>]
        config == loadOrCreateConfig(exists, ts, env.loadOk)
    IN  IF ~env.sshOk /\ ToLower(env.response) \notin {"y", "yes"}
        THEN same("operation cancelled")
        ELSE IF config.err # ""
        THEN same("failed to load config: " \o config.err)
        ELSE IF duplicateName(config.Tunnels, a.Name)
        THEN same("tunnel with name '" \o a.Name \o "' already exists")
        ELSE IF ~env.saveOk
        THEN same("failed to save config: permission denied")
        ELSE [err |-> "", exists |-> TRUE,
              Tunnels |-> Append(config.Tunnels, a),
              printed |-> out, calls |-> <<ssh>>]

\* The most definitions a config file holds here
MaxStored == 3

\* Flag values of an -add run: one with each required flag missing, one with
\* a subnet that is no CIDR, and well-formed ones with two names
AddArgs ==
    { TunnelConfig("", "h", "u", "10.0.0.0/8", ""),
      TunnelConfig("prod", "", "u", "10.0.0.0/8", ""),
      TunnelConfig("prod", "h", "", "10.0.0.0/8", ""),
      TunnelConfig("prod", "h", "u", "", ""),
      TunnelConfig("prod", "h", "u", "10.0.0.0/8, 10.0.0.0/33", ""),
      TunnelConfig("prod", "h", "u", "10.0.0.0/8, 192.168.1.0/24", ""),
      TunnelConfig("prod", "h2", "u", "10.0.0.0/8", "-i k.pem --dns"),
      TunnelConfig("dev", "h", "u", "10.0.0.0/8", ""),
      TunnelConfig("Prod", "h", "u", "10.0.0.0/8", "") }

\* What the environment may answer in one run: the ssh test succeeds, or it
\* fails and a line is typed at the prompt; reading or writing the file may
\* fail
AddEnvs ==
    { env \in [sshOk : BOOLEAN, response : {"y", "YES", "n"},
               loadOk : BOOLEAN, saveOk : BOOLEAN] :
        /\ env.sshOk => env.response = "n"
        /\ env.loadOk \/ env.saveOk }

\* Before the first -add run: no config file, an empty one, or one written
\* by hand with one definition
InitAdd ==
    /\ cfgExists \in BOOLEAN
    /\ tunnels \in {<<>>, <<TunnelConfig("prod", "gw", "admin", "10.1.0.0/16", "")>>}
    /\ (~cfgExists => tunnels = <<>>)
    /\ debugMode = FALSE
    /\ procs = <<>>
    /\ items = <<>>
    /\ index = 0
    /\ choice = ""
    /\ quitting = FALSE
    /\ pc = "add"
    /\ exitCode = -1
    /\ activeTunnels = <<>>
    /\ calls = <<>>
    /\ lastKey = ""
    /\ prevIndex = 0
    /\ before = <<>>
    /\ psText = <<>>
    /\ printed = <<>>
    /\ lastAdd = NoAdd

\* main.go:644-651 with handleAddCommand (main.go:486-547): one run of the
\* program with -add
AddCommand ==
    /\ pc = "add"
    /\ Len(tunnels) < MaxStored
    /\ \E a \in AddArgs :
        \E invalid \in {argsError(a)}, env \in AddEnvs :
            LET r == IF invalid # ""
                     THEN [err |-> invalid, exists |-> cfgExists,
                           Tunnels |-> tunnels, printed |-> <<>>, calls |-> <<>>]
                     ELSE addChecked(a, cfgExists, tunnels, env)
            IN  /\ cfgExists' = r.exists
                /\ tunnels' = r.Tunnels
                /\ calls' = r.calls
                /\ printed' =
                      IF r.err = ""
                      THEN r.printed \o <<"Tunnel configuration added successfully!">>
                      ELSE r.printed
                /\ exitCode' = IF r.err = "" THEN 0 ELSE 1
                /\ lastAdd' = [run |-> TRUE, args |-> a, err |-> r.err,
                               stored |-> tunnels]
    /\ UNCHANGED <<debugMode, procs, items, index, choice, quitting, pc,
                   activeTunnels, lastKey, prevIndex, before, psText>>

NextAdd == AddCommand

SpecAdd == InitAdd /\ [][NextAdd]_vars

\* No two definitions of the list have the same name
UniqueNames(ts) ==
    \A j, k \in 1..Len(ts) : j # k => ts[j].Name # ts[k].Name

\* The last run was an -add whose name was already in the file
AddedExistingName ==
    /\ lastAdd.run
    /\ \E j \in 1..Len(lastAdd.stored) : lastAdd.stored[j].Name = lastAdd.args.Name

\* C18: after any sequence of -add runs the stored definitions have pairwise
\* different names; a run whose name is already stored ends with an error
\* (exit code 1) and leaves the stored list as it was.
C18_NamesStayUnique ==
    /\ UniqueNames(tunnels)
    /\ AddedExistingName =>
          /\ lastAdd.err # ""
          /\ exitCode = 1
          /\ tunnels = lastAdd.stored

\* C18 witness: two definitions are stored and a run that passed every other
\* check was turned down for its name
C18_Witness ==
    /\ AddedExistingName
    /\ Len(tunnels) = 2
    /\ lastAdd.err = "tunnel with name 'prod' already exists"

----------------------------------------------------------------------------
(* Claims about the process as a whole: its exit code, what it hands to the *)
(* shell, whom it kills, and what the moving keys leave alone.              *)

\* The stop the user asked for on the active row failed
StopFailed ==
    /\ ConfirmedActive
    /\ \E j \in KillCalls : ~calls[j].ok

\* The command handed to the shell failed
LaunchFailed ==
    \E j \in 1..Len(printed) : HasPrefix(printed[j], "Error executing command")

\* C21: when the process has ended, its exit code is 1 if the launched
\* command failed or the requested stop of a tunnel failed, and 0 otherwise.
C21_ExitCodeReportsFailure ==
    pc = "exit" => exitCode = (IF StopFailed \/ LaunchFailed THEN 1 ELSE 0)

\* The command up to the opening quote of --ssh-cmd, as the command shape
\* gives it for a definition
ShapeHead(t) ==
    (IF debugMode THEN "sshuttle -v -r " ELSE "sshuttle -r ")
        \o t.User \o "@" \o t.Host \o " " \o t.Subnets
        \o (IF debugMode THEN "" ELSE " --daemon") \o " --ssh-cmd=\""

\* C22 (builder, SpecBuild): for a definition whose extra-args does not
\* contain "-i ", the resolved command starts with the base command's shape,
\* its --ssh-cmd option holds no key option, and what follows the option's
\* closing quote is nothing when extra-args is empty and otherwise a space
\* and the extra-args string unchanged.
C22_ExtraArgsAppendedVerbatim ==
    Built =>
        \A j \in 1..Len(tunnels) :
            ~Contains(tunnels[j].ExtraArgs, "-i ") =>
                /\ HasPrefix(Row(j).command, ShapeHead(tunnels[j]))
                /\ SshOptionStart(Row(j).command)
                      = Len(ShapeHead(tunnels[j])) - Len("--ssh-cmd=\"") + 1
                /\ ~Contains(SshOptionText(Row(j).command), " -i")
                /\ Trailing(Row(j).command) =
                      (IF tunnels[j].ExtraArgs = "" THEN ""
                       ELSE " " \o tunnels[j].ExtraArgs)

\* C22 witness: extra-args of several words without a key flag, normal mode
C22_Witness ==
    /\ Built
    /\ ~debugMode
    /\ Len(tunnels) = 1
    /\ tunnels[1].ExtraArgs = "-x 10.0.0.1 -v"
    /\ Trailing(Row(1).command) = " -x 10.0.0.1 -v"

\* C23: at most one command is handed to the shell, and it is the resolved
\* command of the available row the user pressed enter on; it is neither a
\* status message nor the add-flow sentinel; and after a quit key, or enter
\* on the active row or on Add New, nothing is handed to the shell.
C23_OnlyConfirmedCommandToShell ==
    /\ Cardinality(ShellCalls) <= 1
    /\ \A m \in ShellCalls :
          /\ ConfirmedAvailable
          /\ calls[m].text = Item(index).command
          /\ ~HasPrefix(calls[m].text, "Tunnel stopped:")
          /\ ~HasPrefix(calls[m].text, "Failed to stop")
          /\ calls[m].text # "add_new_tunnel"
    /\ (lastKey \in {"q", "esc"} \/ ConfirmedActive \/ ConfirmedAddNew) =>
          (ShellCalls = {} /\ pc # "launched")

\* C23 witness: the command of a confirmed available row went to the shell
\* and returned, after the session had moved the cursor there
C23_Witness ==
    /\ ConfirmedAvailable
    /\ pc = "exit"
    /\ exitCode = 0
    /\ \E m \in ShellCalls : calls[m].text = choice /\ IsCommandString(choice)

----------------------------------------------------------------------------
(* The program next to processes that are no tunnels but whose command line *)
(* holds the letters the scanner looks for.                                 *)

\* An editor on a file whose name holds "sshuttle" and "-r", and a tunnel
LookalikeKinds ==
    { <<Me, "vim sshuttle-routes.txt">>,
      <<Me, "sshuttle --dns -r u@b 0/0">> }

LookalikeTables ==
    { [k \in 1..Len(t) |-> [pid |-> 100 + k, user |-> t[k][1], args |-> t[k][2]]] :
        t \in SeqsUpTo(LookalikeKinds, MaxProcs) }

InitLookalike ==
    /\ debugMode \in BOOLEAN
    /\ cfgExists \in BOOLEAN
    /\ tunnels \in SeqsUpTo(DefSet, MaxDefs)
    /\ (~cfgExists => tunnels = <<>>)
    /\ procs \in LookalikeTables
    /\ items = <<>>
    /\ index = 0
    /\ choice = ""
    /\ quitting = FALSE
    /\ pc = "start"
    /\ exitCode = -1
    /\ activeTunnels = <<>>
    /\ calls = <<>>
    /\ lastKey = ""
    /\ prevIndex = 0
    /\ before = <<>>
    /\ psText = <<>>
    /\ printed = <<>>
    /\ lastAdd = NoAdd

SpecLookalike == InitLookalike /\ [][Next]_vars

\* The command line is the tunnel tool run with its remote flag
IsTunnelCommand(fields) ==
    /\ Len(fields) > 0
    /\ fields[1] = "sshuttle"
    /\ \E k \in 2..Len(fields) : fields[k] = "-r"

\* The words of a listing line after the user and the pid
CommandFields(line) == SubSeq(Fields(line), 3, Len(Fields(line)))

\* C24: every session the scan of the catalog build reported is a process
\* running the tunnel tool with its remote flag, and every `kill` was for
\* such a process of the table as it was when enter was pressed.
C24_OnlyTunnelsReportedAndKilled ==
    /\ \A k \in 1..Len(activeTunnels) :
          IsTunnelCommand(CommandFields(activeTunnels[k].Command))
    /\ \A j \in KillCalls :
          \E k \in 1..Len(before) :
              /\ before[k].pid = calls[j].pid
              /\ IsTunnelCommand(Fields(before[k].args))

\* C25: a step of the "up" or the "down" key changes nothing but the cursor:
\* the catalog (entries, their commands and pids), the pending result and
\* the quitting flag are the same, no command is run and no process ends,
\* the session goes on, and the cursor stays inside the catalog.
C25_MovesChangeCursorOnly ==
    [][ (pc = "nav" /\ lastKey' \in {"up", "down"}) =>
            /\ items' = items
            /\ choice' = choice
            /\ quitting' = quitting
            /\ calls' = calls
            /\ procs' = procs
            /\ activeTunnels' = activeTunnels
            /\ pc' = "nav"
            /\ index' \in 0..(Len(items) - 1)
      ]_vars

\* C25 witness: the "up" key moved the cursor; the result is still empty and
\* the scan of the catalog build is the only command run so far
C25_Witness ==
    /\ pc = "nav"
    /\ lastKey = "up"
    /\ index < prevIndex
    /\ choice = ""
    /\ Len(calls) = 1
    /\ procs = before

====
